---------------------------- MODULE Spec2Model ----------------------------
(***************************************************************************)
(* Model of the optics equation solver of src/app.py: the request handler  *)
(* `calculate`, the validator OpticsCalculator.validate_inputs, the two     *)
(* solvers calculate_mirror / calculate_lens, _round_values and             *)
(* _analyze_image_characteristics.                                          *)
(*                                                                          *)
(* Python floats are modelled as exact rationals extended with +inf, -inf   *)
(* and nan; a division by a finite zero raises ZeroDivisionError, as in     *)
(* Python.  Binary rounding error of the float operations and the sign of   *)
(* zero are not modelled.  Request inputs are finite numbers.               *)
(***************************************************************************)
EXTENDS Integers, Sequences, FiniteSets, TLC

(***************************************************************************)
(* Values: None, finite rationals n/d in lowest terms, signed infinity,     *)
(* nan, and the marker of a raised ZeroDivisionError.                       *)
(***************************************************************************)
None == [k |-> "none"]
NaN == [k |-> "nan"]
ZDE == [k |-> "zde"]
Inf(s) == [k |-> "inf", s |-> s]
PosInf == Inf(1)
NegInf == Inf(-1)

\* a Python string (request text, or the infinity sentinel of a response)
Str(t) == [k |-> "str", s |-> t]

AbsI(n) == IF n < 0 THEN -n ELSE n
SgnI(n) == IF n < 0 THEN -1 ELSE IF n > 0 THEN 1 ELSE 0

RECURSIVE GCD(_, _)
GCD(a, b) == IF b = 0 THEN a ELSE GCD(b, a % b)

Fin(n, d) ==
    LET g == GCD(AbsI(n), d)
    IN  [k |-> "fin", n |-> SgnI(n) * (AbsI(n) \div g), d |-> d \div g]

Num(n) == Fin(n, 1)
Zero == Num(0)

IsNone(x) == x.k = "none"
IsFin(x) == x.k = "fin"
IsInf(x) == x.k = "inf"
IsZDE(x) == x.k = "zde"

\* sign of a float: -1, 0, 1 (nan has no sign: 0, and is handled by callers)
Sgn(x) == IF x.k = "fin" THEN SgnI(x.n) ELSE IF x.k = "inf" THEN x.s ELSE 0

Neg(x) ==
    CASE x.k = "fin" -> [x EXCEPT !.n = -x.n]
      [] x.k = "inf" -> Inf(-x.s)
      [] OTHER -> x

Abs(x) ==
    CASE x.k = "fin" -> [x EXCEPT !.n = AbsI(x.n)]
      [] x.k = "inf" -> PosInf
      [] OTHER -> x

Mul(a, b) ==
    CASE a.k = "zde" \/ b.k = "zde" -> ZDE
      [] a.k = "nan" \/ b.k = "nan" -> NaN
      [] a.k = "fin" /\ b.k = "fin" ->
            LET g1 == GCD(AbsI(a.n), b.d)
                g2 == GCD(AbsI(b.n), a.d)
            IN  Fin((a.n \div g1) * (b.n \div g2), (a.d \div g2) * (b.d \div g1))
      [] OTHER -> IF Sgn(a) * Sgn(b) = 0 THEN NaN ELSE Inf(Sgn(a) * Sgn(b))

Div(a, b) ==
    CASE a.k = "zde" \/ b.k = "zde" -> ZDE
      [] b.k = "fin" /\ b.n = 0 -> ZDE
      [] a.k = "nan" \/ b.k = "nan" -> NaN
      [] a.k = "fin" /\ b.k = "fin" ->
            Mul(a, Fin(SgnI(b.n) * b.d, AbsI(b.n)))
      [] a.k = "inf" /\ b.k = "inf" -> NaN
      [] a.k = "inf" -> Inf(a.s * Sgn(b))
      [] OTHER -> Zero

Add(a, b) ==
    CASE a.k = "zde" \/ b.k = "zde" -> ZDE
      [] a.k = "nan" \/ b.k = "nan" -> NaN
      [] a.k = "fin" /\ b.k = "fin" ->
            LET g == GCD(a.d, b.d)
            IN  Fin(a.n * (b.d \div g) + b.n * (a.d \div g), (a.d \div g) * b.d)
      [] a.k = "inf" /\ b.k = "inf" -> IF a.s = b.s THEN a ELSE NaN
      [] a.k = "inf" -> a
      [] OTHER -> b

Sub(a, b) == Add(a, Neg(b))

\* comparisons; every comparison with nan is false
Lt(a, b) ==
    CASE a.k = "nan" \/ b.k = "nan" -> FALSE
      [] a.k = "fin" /\ b.k = "fin" ->
            LET g == GCD(a.d, b.d)
            IN  a.n * (b.d \div g) < b.n * (a.d \div g)
      [] a.k = "inf" /\ b.k = "inf" -> a.s < b.s
      [] a.k = "inf" -> a.s < 0
      [] OTHER -> b.s > 0
Gt(a, b) == Lt(b, a)
Le(a, b) == a.k # "nan" /\ b.k # "nan" /\ ~Lt(b, a)
Ge(a, b) == Le(b, a)
EqF(a, b) == a.k # "nan" /\ b.k # "nan" /\ ~Lt(a, b) /\ ~Lt(b, a)

\* abs(x) < 1e-6, written so that no product leaves the integer range
FocalTolerance == 1000000
AbsLtTol(x) ==
    x.k = "fin" /\ AbsI(x.n) <= (x.d - 1) \div FocalTolerance

(***************************************************************************)
(* round(x, 3): nearest multiple of 1/1000, ties to even; inf and nan are   *)
(* returned unchanged.                                                      *)
(***************************************************************************)
Round3(x) ==
    IF x.k # "fin" THEN x
    ELSE LET a  == AbsI(x.n)
             q0 == a \div x.d
             r0 == a % x.d
             d1 == (r0 * 10) \div x.d
             r1 == (r0 * 10) % x.d
             d2 == (r1 * 10) \div x.d
             r2 == (r1 * 10) % x.d
             d3 == (r2 * 10) \div x.d
             r3 == (r2 * 10) % x.d
             m  == d1 * 100 + d2 * 10 + d3
             up == 2 * r3 > x.d \/ (2 * r3 = x.d /\ m % 2 = 1)
             mm == IF up THEN m + 1 ELSE m
             r  == Add(Num(q0), Fin(mm, 1000))
         IN  IF SgnI(x.n) < 0 THEN Neg(r) ELSE r


(***************************************************************************)
(* Diagnostics of the program.                                              *)
(***************************************************************************)
MsgSelect == "Please select both optic type and shape"
MsgZeroF == "Focal length cannot be zero"
MsgConvexLensF == "Convex lens focal length should be positive"
MsgConcaveLensF == "Concave lens focal length should be negative"
MsgObjDist == "Object distance (u) must be negative (object is on the left side)"
MsgObjHeight == "Object height (h1) must be positive"
MsgTooFew == "At least 2 parameters must be provided for calculation"
MsgObjAtFocus == "Object at focal point - image formed at infinity (parallel rays)"
MsgImgAtFocus == "Image at focal point - object would be at infinity"
MsgCalcError == "Calculation error: float division by zero"
MsgServerError == "Server error"

Keys == {"focal_length", "u", "v", "h1", "h2"}

(***************************************************************************)
(* The solvers work on the fields of one OpticsCalculator.  A solver state  *)
(* is the record of the five fields, the errors list, the classification,   *)
(* exc (a ZeroDivisionError was raised and the rest of the try block is     *)
(* skipped) and path (which distance branch ran).                           *)
(***************************************************************************)
Assign(s, fld, val) ==
    IF s.exc THEN s
    ELSE IF IsZDE(val) THEN [s EXCEPT !.exc = TRUE]
    ELSE [s EXCEPT ![fld] = val]

\* lines 98-102 / 176-180: the fields are overwritten from data
Extract(self, data) ==
    [focal_length |-> data.focal_length, u |-> data.u, v |-> data.v,
     h1 |-> data.h1, h2 |-> data.h2,
     errors |-> self.errors, ic |-> self.ic,
     exc |-> FALSE, path |-> "none"]

\* lines 104-109
MirrorSign(s, shape) ==
    IF IsNone(s.focal_length) THEN s
    ELSE IF shape = "concave" /\ Gt(s.focal_length, Zero)
         THEN [s EXCEPT !.focal_length = Neg(Abs(s.focal_length))]
    ELSE IF shape = "convex" /\ Lt(s.focal_length, Zero)
         THEN [s EXCEPT !.focal_length = Abs(s.focal_length)]
    ELSE s

\* the three closed forms of the mirror formula 1/f = 1/u + 1/v
MirrorF(u, v) == Div(Mul(u, v), Add(u, v))
\* a wrong closed form for v: the denominator of the lens formula
MirrorVLensForm(f, u) == Div(Mul(f, u), Add(u, f))
MirrorV(f, u) == Div(Mul(f, u), Sub(u, f))
MirrorU(f, v) == Div(Mul(f, v), Sub(v, f))

\* sign of the infinite distance in the guarded focal-point case
MirrorInf(f) == IF Lt(f, Zero) THEN PosInf ELSE NegInf

\* lines 115-135
MirrorDistance(s) ==
    IF s.exc THEN s
    ELSE IF ~IsNone(s.u) /\ ~IsNone(s.v) /\ IsNone(s.focal_length)
         THEN Assign([s EXCEPT !.path = "f_from_uv"], "focal_length",
                     MirrorF(s.u, s.v))
    ELSE IF ~IsNone(s.focal_length) /\ ~IsNone(s.u) /\ IsNone(s.v)
         THEN IF AbsLtTol(Sub(s.u, s.focal_length))
              THEN [s EXCEPT !.v = MirrorInf(s.focal_length),
                             !.errors = Append(@, MsgObjAtFocus),
                             !.path = "v_inf"]
              ELSE Assign([s EXCEPT !.path = "v_from_fu"], "v",
                          MirrorV(s.focal_length, s.u))
    ELSE IF ~IsNone(s.focal_length) /\ ~IsNone(s.v) /\ IsNone(s.u)
         THEN IF AbsLtTol(Sub(s.v, s.focal_length))
              THEN [s EXCEPT !.u = MirrorInf(s.focal_length),
                             !.errors = Append(@, MsgImgAtFocus),
                             !.path = "u_inf"]
              ELSE Assign([s EXCEPT !.path = "u_from_fv"], "u",
                          MirrorU(s.focal_length, s.v))
    ELSE s

MirrorM(u, v) == Div(Neg(v), u)

\* the magnification step recomputing an image height that is known
MirrorMagnificationOverwrite(s) ==
    IF s.exc THEN s
    ELSE IF ~IsNone(s.u) /\ ~IsNone(s.v)
         THEN LET m == MirrorM(s.u, s.v)
              IN  IF IsZDE(m) THEN [s EXCEPT !.exc = TRUE]
                  ELSE IF ~IsNone(s.h1)
                       THEN Assign(s, "h2", Mul(m, s.h1))
                  ELSE IF ~IsNone(s.h2) /\ IsNone(s.h1)
                       THEN Assign(s, "h1", Div(s.h2, m))
                  ELSE s
    ELSE s

\* lines 138-144
MirrorMagnification(s) ==
    IF s.exc THEN s
    ELSE IF ~IsNone(s.u) /\ ~IsNone(s.v)
         THEN LET m == MirrorM(s.u, s.v)
              IN  IF IsZDE(m) THEN [s EXCEPT !.exc = TRUE]
                  ELSE IF ~IsNone(s.h1) /\ IsNone(s.h2)
                       THEN Assign(s, "h2", Mul(m, s.h1))
                  ELSE IF ~IsNone(s.h2) /\ IsNone(s.h1)
                       THEN Assign(s, "h1", Div(s.h2, m))
                  ELSE s
    ELSE s

\* the height ratio replacing a distance that is already known
MirrorHeightRatioOverwrite(s) ==
    IF s.exc THEN s
    ELSE IF ~IsNone(s.h1) /\ ~IsNone(s.h2)
         THEN LET m == Div(s.h2, s.h1)
              IN  IF IsZDE(m) THEN [s EXCEPT !.exc = TRUE]
                  ELSE IF ~IsNone(s.u)
                       THEN Assign(s, "v", Mul(Neg(m), s.u))
                  ELSE IF ~IsNone(s.v) /\ IsNone(s.u)
                       THEN Assign(s, "u", Div(Neg(s.v), m))
                  ELSE s
    ELSE s

\* lines 147-153
MirrorHeightRatio(s) ==
    IF s.exc THEN s
    ELSE IF ~IsNone(s.h1) /\ ~IsNone(s.h2)
         THEN LET m == Div(s.h2, s.h1)
              IN  IF IsZDE(m) THEN [s EXCEPT !.exc = TRUE]
                  ELSE IF ~IsNone(s.u) /\ IsNone(s.v)
                       THEN Assign(s, "v", Mul(Neg(m), s.u))
                  ELSE IF ~IsNone(s.v) /\ IsNone(s.u)
                       THEN Assign(s, "u", Div(Neg(s.v), m))
                  ELSE s
    ELSE s

HeightFactorNum == 3
HeightFactorDen == 10
\* lines 157 and 228
DefaultHeight(f) == Mul(Abs(f), Fin(HeightFactorNum, HeightFactorDen))

\* the default h1 without the image height of lines 158-159
MirrorDefaultHeightOnly(s) ==
    IF s.exc THEN s
    ELSE IF IsNone(s.h1) /\ ~IsNone(s.focal_length)
         THEN [s EXCEPT !.h1 = DefaultHeight(s.focal_length)]
    ELSE s

\* lines 156-159
MirrorDefaultHeight(s) ==
    IF s.exc THEN s
    ELSE IF IsNone(s.h1) /\ ~IsNone(s.focal_length)
         THEN LET t == [s EXCEPT !.h1 = DefaultHeight(s.focal_length)]
              IN  IF ~IsNone(t.u) /\ ~IsNone(t.v)
                  THEN Assign(t, "h2", Mul(Neg(Div(t.v, t.u)), t.h1))
                  ELSE t
    ELSE s

\* no rounding at all
RoundValuesSkipped(s) == s

\* lines 244-255; math.isinf is false for nan and round(nan, 3) is nan
RoundField(x) == IF IsNone(x) THEN x ELSE Round3(x)
RoundValues(s) ==
    IF s.exc THEN s
    ELSE [s EXCEPT !.focal_length = RoundField(@), !.u = RoundField(@),
                   !.v = RoundField(@), !.h1 = RoundField(@),
                   !.h2 = RoundField(@)]

InfiniteImage ==
    [nature |-> "Image at infinity", orientation |-> "Parallel rays",
     size |-> "Infinite", magnification |-> Str("inf")]

\* the mirror rule applied to lenses too
NatureAsMirror(optic_type, v) ==
    IF Lt(v, Zero) THEN "Real" ELSE "Virtual"

Nature(optic_type, v) ==
    IF optic_type = "mirror"
    THEN IF Lt(v, Zero) THEN "Real" ELSE "Virtual"
    ELSE IF Gt(v, Zero) THEN "Real" ELSE "Virtual"

Orientation(h1, h2) ==
    IF Gt(Mul(h2, h1), Zero) THEN "Erect" ELSE "Inverted"

Size(m) ==
    IF Gt(m, Num(1)) THEN "Magnified"
    ELSE IF Lt(m, Num(1)) THEN "Diminished"
    ELSE "Same size"

\* the classification without the branch for infinite distances
AnalyzeImageFinite(s, optic_type) ==
    IF s.exc THEN s
    ELSE IF IsNone(s.u) \/ IsNone(s.v) \/ IsNone(s.h1) \/ IsNone(s.h2)
         THEN s
    ELSE [s EXCEPT !.ic =
             [nature |-> Nature(optic_type, s.v),
              orientation |-> "Inverted",
              size |-> "Magnified",
              magnification |-> Str("inf")]]

\* lines 257-311
AnalyzeImage(s, optic_type) ==
    IF s.exc THEN s
    ELSE IF IsNone(s.u) \/ IsNone(s.v) \/ IsNone(s.h1) \/ IsNone(s.h2)
         THEN s
    ELSE IF IsInf(s.v) \/ IsInf(s.u)
         THEN [s EXCEPT !.ic = InfiniteImage]
    ELSE LET m == IF ~EqF(s.h1, Zero) THEN Abs(Div(s.h2, s.h1)) ELSE Zero
         IN  [s EXCEPT !.ic =
                 [nature |-> Nature(optic_type, s.v),
                  orientation |-> Orientation(s.h1, s.h2),
                  size |-> Size(m),
                  magnification |-> Round3(m)]]

\* the state of calculate_mirror at line 162, before _round_values
MirrorUnrounded(self, data, shape) ==
    MirrorDefaultHeight(MirrorHeightRatio(MirrorMagnification(
        MirrorDistance(MirrorSign(Extract(self, data), shape)))))

\* lines 167-169: the except clause
Caught(s) ==
    IF s.exc THEN [s EXCEPT !.errors = Append(@, MsgCalcError)] ELSE s

\* lines 95-171; the result is True iff ~exc
CalculateMirror(self, data, shape) ==
    Caught(AnalyzeImage(RoundValues(MirrorUnrounded(self, data, shape)),
                        "mirror"))


\* the three closed forms used by calculate_lens (lines 188, 197, 206)
LensF(u, v) == Div(Mul(u, v), Sub(v, u))
LensV(f, u) == Div(Mul(f, u), Add(u, f))
LensU(f, v) == Div(Mul(f, v), Sub(v, f))

\* the sign rule of the mirror used for the lens
LensInfAsMirror(f) == IF Lt(f, Zero) THEN PosInf ELSE NegInf
LensInf(f) == IF Gt(f, Zero) THEN PosInf ELSE NegInf

\* lines 186-206
LensDistance(s) ==
    IF s.exc THEN s
    ELSE IF ~IsNone(s.u) /\ ~IsNone(s.v) /\ IsNone(s.focal_length)
         THEN Assign([s EXCEPT !.path = "f_from_uv"], "focal_length",
                     LensF(s.u, s.v))
    ELSE IF ~IsNone(s.focal_length) /\ ~IsNone(s.u) /\ IsNone(s.v)
         THEN IF AbsLtTol(Add(s.u, s.focal_length))
              THEN [s EXCEPT !.v = LensInf(s.focal_length),
                             !.errors = Append(@, MsgObjAtFocus),
                             !.path = "v_inf"]
              ELSE Assign([s EXCEPT !.path = "v_from_fu"], "v",
                          LensV(s.focal_length, s.u))
    ELSE IF ~IsNone(s.focal_length) /\ ~IsNone(s.v) /\ IsNone(s.u)
         THEN IF AbsLtTol(Sub(s.v, s.focal_length))
              THEN [s EXCEPT !.u = LensInf(s.focal_length),
                             !.errors = Append(@, MsgImgAtFocus),
                             !.path = "u_inf"]
              ELSE Assign([s EXCEPT !.path = "u_from_fv"], "u",
                          LensU(s.focal_length, s.v))
    ELSE s

LensM(u, v) == Div(v, u)

\* lines 209-215
LensMagnification(s) ==
    IF s.exc THEN s
    ELSE IF ~IsNone(s.u) /\ ~IsNone(s.v)
         THEN LET m == LensM(s.u, s.v)
              IN  IF IsZDE(m) THEN [s EXCEPT !.exc = TRUE]
                  ELSE IF ~IsNone(s.h1) /\ IsNone(s.h2)
                       THEN Assign(s, "h2", Mul(m, s.h1))
                  ELSE IF ~IsNone(s.h2) /\ IsNone(s.h1)
                       THEN Assign(s, "h1", Div(s.h2, m))
                  ELSE s
    ELSE s

\* lines 218-224
LensHeightRatio(s) ==
    IF s.exc THEN s
    ELSE IF ~IsNone(s.h1) /\ ~IsNone(s.h2)
         THEN LET m == Div(s.h2, s.h1)
              IN  IF IsZDE(m) THEN [s EXCEPT !.exc = TRUE]
                  ELSE IF ~IsNone(s.u) /\ IsNone(s.v)
                       THEN Assign(s, "v", Mul(m, s.u))
                  ELSE IF ~IsNone(s.v) /\ IsNone(s.u)
                       THEN Assign(s, "u", Div(s.v, m))
                  ELSE s
    ELSE s

\* lines 227-230
LensDefaultHeight(s) ==
    IF s.exc THEN s
    ELSE IF IsNone(s.h1) /\ ~IsNone(s.focal_length)
         THEN LET t == [s EXCEPT !.h1 = DefaultHeight(s.focal_length)]
              IN  IF ~IsNone(t.u) /\ ~IsNone(t.v)
                  THEN Assign(t, "h2", Mul(Div(t.v, t.u), t.h1))
                  ELSE t
    ELSE s

\* a lens solver that first forces a supplied f positive
ForcePositive(s) ==
    IF IsNone(s.focal_length) THEN s
    ELSE [s EXCEPT !.focal_length = Abs(s.focal_length)]
LensUnroundedPositive(self, data) ==
    LensDefaultHeight(LensHeightRatio(LensMagnification(
        LensDistance(ForcePositive(Extract(self, data))))))

\* the state of calculate_lens at line 233, before _round_values
LensUnrounded(self, data) ==
    LensDefaultHeight(LensHeightRatio(LensMagnification(
        LensDistance(Extract(self, data)))))

\* lines 173-242; the result is True iff ~exc
CalculateLens(self, data) ==
    Caught(AnalyzeImage(RoundValues(LensUnrounded(self, data)), "lens"))


(***************************************************************************)
(* validate_inputs, lines 31-93.  The values of data are floats here (the   *)
(* route parsed them), so float(...) cannot raise in lines 43-84.           *)
(***************************************************************************)
Given(x) == ~IsNone(x)

MsgMirrorFFor(shape) ==
    IF shape = "concave"
    THEN "Using absolute value of focal length for concave mirror"
    ELSE "Using absolute value of focal length for convex mirror"

\* a focal-length rule that rejects every non-positive f
FocalErrorsNonPositive(data) ==
    IF Given(data.focal_length) /\ Le(data.focal_length, Zero)
    THEN <<MsgZeroF>> ELSE <<>>

\* lines 42-58, errors
FocalErrors(data) ==
    IF Given(data.focal_length) /\ EqF(data.focal_length, Zero)
    THEN <<MsgZeroF>> ELSE <<>>

\* lines 42-58, warnings
FocalWarnings(data, optic_type, shape) ==
    LET f == data.focal_length
    IN  IF ~Given(f) \/ EqF(f, Zero) THEN <<>>
        ELSE IF optic_type = "mirror"
             THEN IF Le(f, Zero) THEN <<MsgMirrorFFor(shape)>> ELSE <<>>
        ELSE IF shape = "convex" /\ Le(f, Zero) THEN <<MsgConvexLensF>>
        ELSE IF shape = "concave" /\ Ge(f, Zero) THEN <<MsgConcaveLensF>>
        ELSE <<>>

\* a distance rule that accepts u = 0
ObjectDistanceErrorsPositive(data) ==
    IF Given(data.u) /\ Gt(data.u, Zero) THEN <<MsgObjDist>> ELSE <<>>

\* lines 61-67
ObjectDistanceErrors(data) ==
    IF Given(data.u) /\ Ge(data.u, Zero) THEN <<MsgObjDist>> ELSE <<>>

\* lines 70-76
ObjectHeightErrors(data) ==
    IF Given(data.h1) /\ Le(data.h1, Zero) THEN <<MsgObjHeight>> ELSE <<>>

\* lines 87-88
GivenValues(data) == Cardinality({key \in Keys : Given(data[key])})

MinGiven == 2

\* a count rule that accepts a single value
CountErrorsNone(data) ==
    IF GivenValues(data) < 1 THEN <<MsgTooFew>> ELSE <<>>

\* lines 90-91
CountErrors(data) ==
    IF GivenValues(data) < MinGiven THEN <<MsgTooFew>> ELSE <<>>

Missing(sel) == sel = "none"

\* a validator that stops at the first rule that fails
ValidateInputsFirstOnly(data, optic_type, shape) ==
    LET all == FocalErrors(data) \o ObjectDistanceErrors(data)
                 \o ObjectHeightErrors(data) \o CountErrors(data)
    IN  IF Missing(optic_type) \/ Missing(shape)
        THEN [errors |-> <<MsgSelect>>, warnings |-> <<>>]
        ELSE [errors |-> IF all = <<>> THEN <<>> ELSE <<Head(all)>>,
              warnings |-> FocalWarnings(data, optic_type, shape)]

\* lines 31-93: the errors and warnings left in the calculator; the result
\* is True iff errors is empty
ValidateInputs(data, optic_type, shape) ==
    IF Missing(optic_type) \/ Missing(shape)
    THEN [errors |-> <<MsgSelect>>, warnings |-> <<>>]
    ELSE [errors |-> FocalErrors(data) \o ObjectDistanceErrors(data)
                       \o ObjectHeightErrors(data) \o CountErrors(data),
          warnings |-> FocalWarnings(data, optic_type, shape)]

(***************************************************************************)
(* The request handler `calculate`, lines 672-750.                          *)
(***************************************************************************)
KeyOrder == <<"focal_length", "u", "v", "h1", "h2">>

IsText(x) == x.k = "str"
Blank == Str("")

\* lines 682-685: a value is parsed unless it is absent or blank
Parsed(x) == IF IsText(x) THEN None ELSE x
Unparsable(x) == IsText(x) /\ x # Blank

InvalidValueMsg(key) ==
    CASE key = "focal_length" -> "Invalid value for focal_length: must be a number"
      [] key = "u" -> "Invalid value for u: must be a number"
      [] key = "v" -> "Invalid value for v: must be a number"
      [] key = "h1" -> "Invalid value for h1: must be a number"
      [] key = "h2" -> "Invalid value for h2: must be a number"

\* the first key, in the order of line 681, whose text does not parse
BadKeys(raw) == {i \in 1..5 : Unparsable(raw[KeyOrder[i]])}
FirstBad(raw) ==
    KeyOrder[CHOOSE i \in BadKeys(raw) : \A j \in BadKeys(raw) : i <= j]

\* lines 680-690
ParseInputs(raw) == [key \in Keys |-> Parsed(raw[key])]

\* lines 717-723
SafeValue(x) ==
    IF IsInf(x) THEN (IF x.s > 0 THEN Str("inf") ELSE Str("-inf")) ELSE x

NoValues == [key \in Keys |-> None]

Failure(errs) ==
    [success |-> FALSE, errors |-> errs, results |-> NoValues,
     diagram |-> None, warnings |-> <<>>, image_characteristics |-> None]

(***************************************************************************)
(* Request inputs.                                                          *)
(***************************************************************************)
GridF == {None, Num(0), Num(20), Num(-20), Num(50), Num(-50)}
GridU == {None, Num(0), Num(30), Num(-20), Num(-30)}
GridV == {None, Num(0), Num(20), Num(-20), Num(60)}
RawH1 == {None, Num(0), Num(5)}
RawH2 == {None, Num(0), Num(5), Num(-10), Str("abc")}
\* distances next to the focal point, all exact floats:
\* 20 + 2^-20 is within 1e-6 of 20, 20 + 2^-16 is not
Near == 2^20
Off == 2^16
NearF == {Num(20), Num(-20)}
NearU == {Fin(-(20 * Near + 1), Near), Fin(-(20 * Off + 1), Off)}
NearV == {Fin(20 * Near + 1, Near), Fin(-(20 * Near + 1), Near),
          Fin(20 * Off + 1, Off)}
\* an object very close to an optic of long focal length: -2^-10 is an
\* exact float and the image height differs from the object height by less
\* than the rounding step
Tiny == 2^10
FarF == {Num(50), Num(-50)}
TinyU == {Fin(-1, Tiny)}
OpticTypes == {"none", "mirror", "lens"}
Shapes == {"none", "concave", "convex"}
RawRequests ==
    [focal_length : GridF, u : GridU, v : GridV, h1 : RawH1, h2 : RawH2]
    \cup [focal_length : NearF, u : NearU, v : {None}, h1 : RawH1, h2 : RawH2]
    \cup [focal_length : NearF, u : {None}, v : NearV, h1 : RawH1, h2 : RawH2]
    \cup [focal_length : FarF, u : TinyU, v : {None}, h1 : RawH1, h2 : RawH2]

\* the sets of result values a later call on the same calculator is given:
\* all five, all but f, so that f is derived again from (u, v), or f and h2
\* alone, which leaves the distances unresolved
ResolveKeys == {Keys, Keys \ {"focal_length"}, {"focal_length", "h2"}}
MaxPasses == 2

VARIABLES
    pc,                    \* position in the handler `calculate`; the
                           \* answers are "rejected" (line 687), "invalid"
                           \* (696), "failed" (708), "crashed" (747) and
                           \* "done" (743)
    optic_type, shape,     \* the selection of the request
    inputs,                \* the dict `inputs` of line 680
    focal_length, u, v, h1, h2,   \* fields of the OpticsCalculator
    errors, warnings,      \* its diagnostics
    image_characteristics, \* None while the attribute does not exist
    diagram,               \* diagram_base64
    response,              \* the JSON answer, None before it is built
    unrounded,             \* the five values when the last solve reached
                           \* _round_values or raised
    path,                  \* the distance branch the last solve took
    data,                  \* the data argument of the last solver call
    passes                 \* number of solver calls on this instance

vars == <<pc, optic_type, shape, inputs, focal_length, u, v, h1, h2,
          errors, warnings, image_characteristics, diagram, response,
          unrounded, path, data, passes>>

Values == [focal_length |-> focal_length, u |-> u, v |-> v,
           h1 |-> h1, h2 |-> h2]

Self == [errors |-> errors, ic |-> image_characteristics]

FiveOf(s) == [focal_length |-> s.focal_length, u |-> s.u, v |-> s.v,
              h1 |-> s.h1, h2 |-> s.h2]

\* line 19-29 and the state before any request
Init ==
    /\ pc = "idle"
    /\ optic_type = "none" /\ shape = "none"
    /\ inputs = NoValues
    /\ focal_length = None /\ u = None /\ v = None /\ h1 = None /\ h2 = None
    /\ errors = <<>> /\ warnings = <<>>
    /\ image_characteristics = None
    /\ diagram = None
    /\ response = None
    /\ unrounded = NoValues
    /\ path = "none"
    /\ data = NoValues
    /\ passes = 0

\* lines 675-692: read the request, parse the numbers, build a calculator
Receive ==
    /\ pc = "idle"
    /\ \E ot \in OpticTypes, sh \in Shapes, raw \in RawRequests :
          /\ optic_type' = ot
          /\ shape' = sh
          /\ IF BadKeys(raw) # {}
             THEN /\ response' = Failure(<<InvalidValueMsg(FirstBad(raw))>>)
                  /\ inputs' = NoValues
                  /\ pc' = "rejected"
             ELSE /\ response' = None
                  /\ inputs' = ParseInputs(raw)
                  /\ pc' = "validate"
    /\ UNCHANGED <<focal_length, u, v, h1, h2, errors, warnings,
                   image_characteristics, diagram, unrounded, path, data,
                   passes>>

\* the validator's verdict ignored: the solver is reached with any errors
ValidateUngated ==
    /\ pc = "validate"
    /\ LET r == ValidateInputs(inputs, optic_type, shape)
       IN  /\ errors' = r.errors
           /\ warnings' = r.warnings
           /\ response' = response
           /\ pc' = "solve"
    /\ UNCHANGED <<optic_type, shape, inputs, focal_length, u, v, h1, h2,
                   image_characteristics, diagram, unrounded, path, data,
                   passes>>

\* lines 695-699
Validate ==
    /\ pc = "validate"
    /\ LET r == ValidateInputs(inputs, optic_type, shape)
       IN  /\ errors' = r.errors
           /\ warnings' = r.warnings
           /\ IF r.errors # <<>>
              THEN /\ response' = Failure(r.errors)
                   /\ pc' = "invalid"
              ELSE /\ response' = response
                   /\ pc' = "solve"
    /\ UNCHANGED <<optic_type, shape, inputs, focal_length, u, v, h1, h2,
                   image_characteristics, diagram, unrounded, path, data,
                   passes>>

\* the effect of one solver call on the calculator's fields
Solved(s, raw) ==
    /\ focal_length' = s.focal_length
    /\ u' = s.u /\ v' = s.v /\ h1' = s.h1 /\ h2' = s.h2
    /\ errors' = s.errors
    /\ image_characteristics' = s.ic
    /\ path' = s.path
    /\ unrounded' = FiveOf(raw)
    /\ passes' = passes + 1

\* lines 702-711, optic_type == 'mirror'
SolveMirror ==
    /\ pc = "solve"
    /\ optic_type = "mirror"
    /\ LET s == CalculateMirror(Self, inputs, shape)
       IN  /\ Solved(s, MirrorUnrounded(Self, inputs, shape))
           /\ data' = inputs
           /\ IF s.exc
              THEN /\ response' = Failure(s.errors)
                   /\ pc' = "failed"
              ELSE /\ response' = response
                   /\ pc' = "diagram"
    /\ UNCHANGED <<optic_type, shape, inputs, warnings, diagram>>

\* lines 702-711, the else branch
SolveLens ==
    /\ pc = "solve"
    /\ optic_type # "mirror"
    /\ LET s == CalculateLens(Self, inputs)
       IN  /\ Solved(s, LensUnrounded(Self, inputs))
           /\ data' = inputs
           /\ IF s.exc
              THEN /\ response' = Failure(s.errors)
                   /\ pc' = "failed"
              ELSE /\ response' = response
                   /\ pc' = "diagram"
    /\ UNCHANGED <<optic_type, shape, inputs, warnings, diagram>>

\* line 714 and lines 313-406: the drawing returns an image, or None when a
\* fault is caught inside its try block, or raises when plt.figure /
\* plt.style.use (lines 319-320, 348-349) fail; the handler then answers
\* with lines 745-750
DiagramOutcomes == {"image", "caught", "raised"}
GenerateDiagram ==
    /\ pc = "diagram"
    /\ \E o \in DiagramOutcomes :
          /\ diagram' = IF o = "image" THEN Str("png") ELSE None
          /\ IF o = "raised"
             THEN /\ response' = Failure(<<MsgServerError>>)
                  /\ pc' = "crashed"
             ELSE /\ response' = response
                  /\ pc' = "respond"
    /\ UNCHANGED <<optic_type, shape, inputs, focal_length, u, v, h1, h2,
                   errors, warnings, image_characteristics, unrounded, path,
                   data, passes>>

\* lines 716-743
Respond ==
    /\ pc = "respond"
    /\ response' =
          [success |-> TRUE, errors |-> <<>>,
           results |-> [key \in Keys |-> SafeValue(Values[key])],
           diagram |-> diagram, warnings |-> warnings,
           image_characteristics |-> image_characteristics]
    /\ pc' = "done"
    /\ UNCHANGED <<optic_type, shape, inputs, focal_length, u, v, h1, h2,
                   errors, warnings, image_characteristics, diagram,
                   unrounded, path, data, passes>>

\* the solver is run again on the same calculator with values of its last
\* successful result (lines 95-102 / 173-180 take them from data)
Resolve ==
    /\ pc \in {"done", "resolved"}
    /\ passes < MaxPasses
    /\ \E keys \in ResolveKeys :
          /\ \A key \in keys : Given(Values[key])
          /\ LET d == [key \in Keys |->
                          IF key \in keys THEN Values[key] ELSE None]
                 s == IF optic_type = "mirror"
                      THEN CalculateMirror(Self, d, shape)
                      ELSE CalculateLens(Self, d)
                 raw == IF optic_type = "mirror"
                        THEN MirrorUnrounded(Self, d, shape)
                        ELSE LensUnrounded(Self, d)
             IN  /\ Solved(s, raw)
                 /\ data' = d
                 /\ pc' = IF s.exc THEN "refailed" ELSE "resolved"
    /\ UNCHANGED <<optic_type, shape, inputs, warnings, diagram, response>>

Answered == {"rejected", "invalid", "failed", "crashed", "done"}

\* the answer is sent and the calculator is dropped (line 692 builds a new
\* one for the next request)
Finish ==
    /\ pc \in Answered \cup {"resolved", "refailed"}
    /\ pc' = "idle"
    /\ optic_type' = "none" /\ shape' = "none"
    /\ inputs' = NoValues
    /\ focal_length' = None /\ u' = None /\ v' = None
    /\ h1' = None /\ h2' = None
    /\ errors' = <<>> /\ warnings' = <<>>
    /\ image_characteristics' = None
    /\ diagram' = None
    /\ response' = None
    /\ unrounded' = NoValues
    /\ path' = "none"
    /\ data' = NoValues
    /\ passes' = 0

Next ==
    \/ Receive
    \/ Validate
    \/ SolveMirror
    \/ SolveLens
    \/ GenerateDiagram
    \/ Respond
    \/ Resolve
    \/ Finish

Spec == Init /\ [][Next]_vars


(***************************************************************************)
(* Properties.                                                              *)
(***************************************************************************)
Distances == {"focal_length", "u", "v"}

\* the last solver call returned True / returned False
SolveOK == pc \in {"diagram", "respond", "done", "crashed", "resolved"}
SolveFailed == pc \in {"failed", "refailed"}
AfterSolve == SolveOK \/ SolveFailed

\* the distances handed to the last solver call were finite numbers of at
\* most three decimals (the products of the formulas below then stay within
\* 32-bit integers)
Decimal3(x) == IsFin(x) /\ 1000 % x.d = 0
FiniteDistances ==
    \A key \in Distances : Given(data[key]) => Decimal3(data[key])

\* a distance was derived from the optic formula, not by the guard
FormulaPaths == {"f_from_uv", "v_from_fu", "u_from_fv"}

\* C1: after a successful lens solve that derived f, v or u from the other
\* two by the formula branch, the unrounded values satisfy
\* f * (u - v) = u * v
C1_LensFormula ==
    (SolveOK /\ optic_type = "lens" /\ FiniteDistances
        /\ path \in FormulaPaths)
    => Mul(unrounded.focal_length, Sub(unrounded.u, unrounded.v))
          = Mul(unrounded.u, unrounded.v)

\* C2: after a successful mirror solve that derived f, v or u from the other
\* two by the formula branch, the unrounded values (f after the sign
\* normalization) satisfy f * (u + v) = u * v
C2_MirrorFormula ==
    (SolveOK /\ optic_type = "mirror" /\ FiniteDistances
        /\ path \in FormulaPaths)
    => Mul(unrounded.focal_length, Add(unrounded.u, unrounded.v))
          = Mul(unrounded.u, unrounded.v)

\* a concave mirror with a positive f supplied: v is derived from the
\* normalized f and u
C2_Witness ==
    /\ SolveOK /\ optic_type = "mirror" /\ shape = "concave"
    /\ path = "v_from_fu"
    /\ Gt(data.focal_length, Zero)
    /\ unrounded.focal_length = Neg(data.focal_length)
    /\ IsFin(unrounded.v)


Range(q) == {q[i] : i \in 1..Len(q)}

\* the request supplied f and u and left v to the solver
SuppliedFU ==
    /\ Given(inputs.focal_length) /\ Given(inputs.u) /\ ~Given(inputs.v)

\* the supplied f as the solver uses it (lines 104-109 for a mirror)
UsedF ==
    IF optic_type = "mirror"
    THEN MirrorSign([focal_length |-> inputs.focal_length], shape).focal_length
    ELSE inputs.focal_length

\* the object is not at the focal point: u # f (mirror), u # -f (lens)
OffFocus ==
    IF optic_type = "mirror" THEN inputs.u # UsedF ELSE inputs.u # Neg(UsedF)

\* the re-solve that follows the first solve was given u, v and the heights
\* but not f
ResolvedWithoutF ==
    /\ pc \in {"resolved", "refailed"} /\ passes = 2
    /\ ~Given(data.focal_length)

RoundTripTolerance == Fin(1, 1000)

\* C3: when v was solved from a supplied (f, u) off the focal point and f is
\* then solved again from (u, v), the new f is within the rounding unit of
\* the f the first solve used
C3_RoundTrip ==
    (ResolvedWithoutF /\ SuppliedFU /\ OffFocus)
    => /\ IsFin(focal_length)
       /\ Le(Abs(Sub(focal_length, UsedF)), RoundTripTolerance)

AllResolved(r) == \A key \in Keys : Given(r[key])

\* C4 as stated: every success answer has all five values
C4_AllResolvedAny ==
    pc = "done" => AllResolved(response.results)

\* C4, amended: a success answer to a request that supplied at least two of
\* f, u, v has all five values
C4_AllResolved ==
    (pc = "done"
        /\ Cardinality({key \in Distances : Given(inputs[key])}) >= 2)
    => AllResolved(response.results)

\* f and u supplied without heights: v, the default h1 and h2 are derived
C4_Witness ==
    /\ pc = "done" /\ SuppliedFU
    /\ ~Given(inputs.h1) /\ ~Given(inputs.h2)
    /\ IsFin(response.results.v) /\ IsFin(response.results.h2)

\* C5: when the solver returned True the errors list of the calculator is
\* empty
C5_SuccessNoErrors ==
    SolveOK => errors = <<>>

IsInfText(x) == x \in {Str("inf"), Str("-inf")}

\* C6: a success answer of a solve that hit the object-at-focal-point guard
\* reports v as an infinity sentinel and carries the advisory in warnings
C6_FocalAdvisory ==
    (pc = "done" /\ path = "v_inf")
    => /\ IsInfText(response.results.v)
       /\ MsgObjAtFocus \in Range(response.warnings)

\* C7: a first solve that hit a focal-point guard returns True
C7_FocalNeverFatal ==
    (AfterSolve /\ passes = 1 /\ path \in {"v_inf", "u_inf"}) => SolveOK

\* within 1e-6 of zero, for the finite numbers of the requests
\* |n| / d < 1 / 10^6; a numerator of 2148 or more already exceeds d / 10^6
Within(x) ==
    /\ IsFin(x)
    /\ AbsI(x.n) < 2148
    /\ AbsI(x.n) * 1000000 < x.d

\* the solver was handed f and u only / f and v only, as finite numbers
GivenFU ==
    /\ AfterSolve
    /\ IsFin(data.focal_length) /\ IsFin(data.u) /\ ~Given(data.v)
GivenFV ==
    /\ AfterSolve
    /\ IsFin(data.focal_length) /\ IsFin(data.v) /\ ~Given(data.u)

SignedInf(positive) == IF positive THEN PosInf ELSE NegInf

\* C8: the guard fires exactly when the denominator is within 1e-6 of zero,
\* and the infinite distance is +inf for f < 0 (mirror, f as normalized) or
\* f > 0 (lens) and -inf otherwise
C8_FocalSigns ==
    LET f == unrounded.focal_length
        neg == Lt(f, Zero)
        pos == Gt(f, Zero)
    IN  /\ (GivenFU /\ optic_type = "mirror") =>
              IF Within(Sub(data.u, f)) THEN v = SignedInf(neg) ELSE IsFin(v)
        /\ (GivenFV /\ optic_type = "mirror") =>
              IF Within(Sub(data.v, f)) THEN u = SignedInf(neg) ELSE IsFin(u)
        /\ (GivenFU /\ optic_type = "lens") =>
              IF Within(Add(data.u, f)) THEN v = SignedInf(pos) ELSE IsFin(v)
        /\ (GivenFV /\ optic_type = "lens") =>
              IF Within(Sub(data.v, f)) THEN u = SignedInf(pos) ELSE IsFin(u)

\* a lens with f < 0 and v next to, but not equal to, f: u = -inf
C8_Witness ==
    /\ GivenFV /\ optic_type = "lens"
    /\ data.v # data.focal_length
    /\ u = NegInf /\ path = "u_inf"

\* the re-solve was handed all five values
ResolvedWithAll ==
    /\ pc \in {"resolved", "refailed"}
    /\ AllResolved(data)

\* C9: a re-solve on all five values of a successful result leaves the five
\* values unchanged
C9_Idempotent ==
    ResolvedWithAll => Values = data

\* the rules of the validator that the parsed request violates
Violated ==
    (IF Missing(optic_type) \/ Missing(shape) THEN {MsgSelect} ELSE {})
    \cup (IF Given(inputs.focal_length) /\ EqF(inputs.focal_length, Zero)
          THEN {MsgZeroF} ELSE {})
    \cup (IF Given(inputs.u) /\ Ge(inputs.u, Zero) THEN {MsgObjDist} ELSE {})
    \cup (IF Given(inputs.h1) /\ Le(inputs.h1, Zero)
          THEN {MsgObjHeight} ELSE {})
    \cup (IF Cardinality({key \in Keys : Given(inputs[key])}) < 2
          THEN {MsgTooFew} ELSE {})

Validated == pc \in {"solve", "invalid"}

Selected == ~Missing(optic_type) /\ ~Missing(shape)

\* the request supplied u >= 0
BadObjectDistance == Given(inputs.u) /\ Ge(inputs.u, Zero)

TooFew == Cardinality({key \in Keys : Given(inputs[key])}) < 2

ExpectedFocalWarnings ==
    LET f == inputs.focal_length
    IN  IF optic_type = "mirror" /\ Lt(f, Zero)
        THEN {MsgMirrorFFor(shape)}
        ELSE IF optic_type = "lens" /\ shape = "convex" /\ Lt(f, Zero)
        THEN {MsgConvexLensF}
        ELSE IF optic_type = "lens" /\ shape = "concave" /\ Gt(f, Zero)
        THEN {MsgConcaveLensF}
        ELSE {}

FirstSolve == AfterSolve /\ passes = 1

\* C14: a concave mirror with a supplied f > 0 passes validation with the
\* focal-length warning recorded, and the solver derives everything from
\* -|f|
C14_ConcaveNormalized ==
    (FirstSolve /\ optic_type = "mirror" /\ shape = "concave"
        /\ Given(inputs.focal_length) /\ Gt(inputs.focal_length, Zero))
    => /\ MsgMirrorFFor("concave") \in Range(warnings)
       /\ unrounded.focal_length = Neg(Abs(inputs.focal_length))

HalfUnit == Fin(1, 2000)

\* C15: a lens solve keeps the supplied f: the f it works with is the
\* supplied one, the reported f is its 3-decimal rounding, a v derived from
\* (f, u) satisfies v * (u + f) = f * u for the supplied f, and a default h1
\* is 0.3 * |f|
C15_LensKeepsF ==
    (AfterSolve /\ optic_type = "lens" /\ Given(data.focal_length)
        /\ FiniteDistances)
    => /\ unrounded.focal_length = data.focal_length
       /\ SolveOK =>
             /\ Sgn(focal_length) = Sgn(data.focal_length)
             /\ Le(Abs(Sub(focal_length, data.focal_length)), HalfUnit)
       /\ path = "v_from_fu" /\ Given(unrounded.v) =>
             Mul(unrounded.v, Add(data.u, data.focal_length))
                = Mul(data.focal_length, data.u)
       /\ (SolveOK /\ ~Given(data.h1) /\ ~Given(data.h2)) =>
             unrounded.h1 = Mul(Abs(data.focal_length), Fin(3, 10))

\* a convex lens with a supplied f < 0 (warning issued) solved with f as given
C15_Witness ==
    /\ pc = "done" /\ optic_type = "lens" /\ shape = "convex"
    /\ warnings = <<MsgConvexLensF>>
    /\ path = "v_from_fu"
    /\ Lt(focal_length, Zero)
    /\ response.results.focal_length = inputs.focal_length

Scenario16 ==
    [focal_length |-> Num(-50), u |-> Num(-20), v |-> None, h1 |-> None,
     h2 |-> None]

\* C16: concave mirror, f = -50, u = -20: the solve yields f = -50, u = -20,
\* v = 33.333, h1 = 15, h2 = 25, Virtual, Erect, Magnified
C16_Scenario ==
    (FirstSolve /\ optic_type = "mirror" /\ shape = "concave"
        /\ inputs = Scenario16)
    => /\ SolveOK
       /\ Values = [focal_length |-> Num(-50), u |-> Num(-20),
                    v |-> Fin(33333, 1000), h1 |-> Num(15), h2 |-> Num(25)]
       /\ image_characteristics.nature = "Virtual"
       /\ image_characteristics.orientation = "Erect"
       /\ image_characteristics.size = "Magnified"

C16_Witness ==
    /\ pc = "done" /\ optic_type = "mirror" /\ shape = "concave"
    /\ inputs = Scenario16
    /\ response.results.v = Fin(33333, 1000)

\* C17: a solve that raised is answered with the calculation error as the
\* only diagnostic, and with no value and no classification
C17_SingleDiagnostic ==
    pc = "failed"
    => /\ ~response.success
       /\ response.errors = <<MsgCalcError>>
       /\ response.results = NoValues
       /\ response.image_characteristics = None


\* the validator's errors for the request being handled
ValidatorErrors == ValidateInputs(inputs, optic_type, shape).errors

\* nothing of the solver or of the drawing has run for this request
Untouched ==
    /\ passes = 0
    /\ unrounded = NoValues
    /\ image_characteristics = None
    /\ diagram = None

\* C18: validation gates solving.  A request whose validation reported an
\* error is answered with success false and the validator's errors, no
\* solver call and no drawing having run, and nothing but the end of the
\* request follows; the first solver call of a request is taken only from
\* the state where validate returned without errors, and a drawing is made
\* only after a solver call.
C18_ValidationGates ==
    [][ /\ (pc' = "invalid"
              => /\ pc = "validate"
                 /\ ValidatorErrors # <<>>
                 /\ ~response'.success
                 /\ response'.errors = ValidatorErrors
                 /\ errors' = ValidatorErrors
                 /\ Untouched')
        /\ (pc = "invalid" => pc' = "idle")
        /\ ((passes = 0 /\ passes' = 1)
              => /\ pc = "solve"
                 /\ errors = <<>>
                 /\ ValidatorErrors = <<>>)
        /\ (pc' = "solve" => pc = "validate" /\ ValidatorErrors = <<>>)
        /\ (diagram' # diagram /\ diagram' # None
              => pc = "diagram" /\ passes >= 1 /\ ValidatorErrors = <<>>)
      ]_vars

\* a request with a selection and two values is refused by the validator
\* for its object distance; no solver call was made
C18_Witness ==
    /\ pc = "invalid"
    /\ Selected
    /\ ~Missing(shape)
    /\ MsgObjDist \in Range(errors)
    /\ response.errors = errors
    /\ ~response.success
    /\ Untouched

\* C19: once validation and the solve succeeded, the request is answered
\* with success true and the numeric results whatever happens in the
\* drawing, the diagram field being null when the drawing failed
C19_RenderingIsolated ==
    pc \in {"done", "crashed"}
    => /\ response.success
       /\ response.results = [key \in Keys |-> SafeValue(Values[key])]
       /\ (diagram = None => response.diagram = None)

\* the default object height of lines 157 and 228 and the magnification of
\* lines 159 and 230
ExpectedDefault(f) == Mul(Abs(f), Fin(HeightFactorNum, HeightFactorDen))
Magnification ==
    IF optic_type = "mirror"
    THEN Neg(Div(unrounded.v, unrounded.u))
    ELSE Div(unrounded.v, unrounded.u)
KnownUV == Given(unrounded.u) /\ Given(unrounded.v)
NoHeight == ~Given(data.h1) /\ ~Given(data.h2)
OnlyH2 == ~Given(data.h1) /\ Given(data.h2)

\* without a supplied height and with f known, h1 = 0.3 * |f| and h2
\* follows from the magnification when u and v are known
DefaultSynthesized ==
    /\ unrounded.h1 = ExpectedDefault(unrounded.focal_length)
    /\ IF KnownUV
       THEN unrounded.h2 = Mul(Magnification, unrounded.h1)
       ELSE unrounded.h2 = data.h2

\* C20 as stated: after a successful solve h1 is the default exactly when
\* no height was supplied and f is known; with a supplied height h1 is the
\* supplied one, or the one the magnification gives, or stays unknown
C20_DefaultHeightAny ==
    (SolveOK /\ FiniteDistances)
    => /\ (NoHeight /\ Given(unrounded.focal_length)) => DefaultSynthesized
       /\ Given(data.h1) => unrounded.h1 = data.h1
       /\ OnlyH2
            => IF KnownUV
               THEN unrounded.h1 = Div(data.h2, Magnification)
               ELSE unrounded.h1 = None

\* what lines 156-159 and 227-230 do instead: the default is synthesized
\* whenever h1 is still unknown once the magnification relations have been
\* applied and f is known, that is, when no height was supplied, and also
\* when only h2 was supplied and u or v is unknown (h2 then stays as
\* supplied); a supplied h1 is kept and with only h2 supplied and u, v
\* known h1 = h2 / m
C20_DefaultHeight ==
    (SolveOK /\ FiniteDistances)
    => /\ (NoHeight /\ Given(unrounded.focal_length)) => DefaultSynthesized
       /\ Given(data.h1) => unrounded.h1 = data.h1
       /\ OnlyH2
            => IF KnownUV
               THEN unrounded.h1 = Div(data.h2, Magnification)
               ELSE IF Given(unrounded.focal_length)
                    THEN DefaultSynthesized
                    ELSE unrounded.h1 = None

\* a solve from f and h2 alone: h1 is the default although h2 was supplied
C20_Witness ==
    /\ FirstSolve /\ SolveOK /\ FiniteDistances
    /\ OnlyH2
    /\ ~KnownUV
    /\ Given(unrounded.focal_length)
    /\ Lt(unrounded.focal_length, Zero)
    /\ unrounded.h1 = ExpectedDefault(unrounded.focal_length)
    /\ unrounded.h2 = data.h2

\* the four values the classification reads are resolved and finite
FiniteResult ==
    SolveOK /\ \A key \in {"u", "v", "h1", "h2"} : IsFin(Values[key])

\* |h2 / h1| of the reported values, 0 if h1 is 0
Ratio == IF h1.n = 0 THEN Zero ELSE Abs(Div(h2, h1))

\* the reference rules of nature, orientation and size on the reported
\* values
ReferenceRules ==
    /\ image_characteristics # None
    /\ image_characteristics.nature =
          (IF optic_type = "mirror"
           THEN (IF v.n < 0 THEN "Real" ELSE "Virtual")
           ELSE (IF v.n > 0 THEN "Real" ELSE "Virtual"))
    /\ image_characteristics.orientation =
          (IF SgnI(h1.n) * SgnI(h2.n) > 0 THEN "Erect" ELSE "Inverted")
    /\ image_characteristics.size =
          (IF Lt(Num(1), Ratio) THEN "Magnified"
           ELSE IF Lt(Ratio, Num(1)) THEN "Diminished"
           ELSE "Same size")

\* C21 as stated: for a result with finite u, v, h1, h2 the classification
\* follows the reference rules and its magnification is |h2 / h1|
C21_ClassificationAny ==
    FiniteResult
    => /\ ReferenceRules
       /\ image_characteristics.magnification = Ratio

\* C21, amended: for a result with finite u, v, h1, h2 the classification
\* follows the reference rules, size being decided by |h2 / h1| itself, and
\* the magnification reported is |h2 / h1| rounded to 3 decimals
C21_Classification ==
    FiniteResult
    => /\ ReferenceRules
       /\ image_characteristics.magnification = Round3(Ratio)

\* a real inverted image of a lens whose ratio 2/3 is reported as 0.667
C21_Witness ==
    /\ pc = "done" /\ FiniteResult
    /\ optic_type = "lens"
    /\ response.image_characteristics.nature = "Real"
    /\ response.image_characteristics.orientation = "Inverted"
    /\ Ratio # Round3(Ratio)
    /\ response.image_characteristics.magnification = Round3(Ratio)

\* the four values the classification reads
Classified == {"u", "v", "h1", "h2"}

\* C22: in the successful solve of a request a classification is produced
\* if and only if u, v, h1 and h2 are all resolved, it is the one the answer
\* carries, and with u or v infinite it is exactly the image-at-infinity
\* record, whose magnification is the infinity sentinel
C22_ClassificationIff ==
    (FirstSolve /\ SolveOK)
    => /\ (image_characteristics # None)
             <=> (\A key \in Classified : Given(Values[key]))
       /\ (image_characteristics # None /\ (IsInf(u) \/ IsInf(v)))
             => /\ image_characteristics = InfiniteImage
                /\ image_characteristics.magnification = Str("inf")
       /\ pc = "done" =>
             response.image_characteristics = image_characteristics

\* an object at the focal point: v is infinite and the answer
\* carries the image-at-infinity record
C22_Witness ==
    /\ pc = "done" /\ passes = 1
    /\ IsInf(v)
    /\ \A key \in Classified : Given(Values[key])
    /\ response.image_characteristics = InfiniteImage

\* the calculator of the last solver call after its distance branch (lines
\* 115-135 / 186-206), after the magnification step (138-144 / 209-215) and
\* after the height-ratio step (147-153 / 218-224)
AfterDistance ==
    IF optic_type = "mirror"
    THEN MirrorDistance(MirrorSign(Extract(Self, data), shape))
    ELSE LensDistance(Extract(Self, data))
AfterMagnification ==
    IF optic_type = "mirror"
    THEN MirrorMagnification(AfterDistance)
    ELSE LensMagnification(AfterDistance)
AfterHeightRatio ==
    IF optic_type = "mirror"
    THEN MirrorHeightRatio(AfterMagnification)
    ELSE LensHeightRatio(AfterMagnification)

\* the height-ratio step assigned the distance key
HeightRatioAssigned(key) ==
    /\ ~AfterMagnification.exc
    /\ AfterHeightRatio[key] # AfterMagnification[key]

Triple == {"focal_length", "u", "v"}
TwoOfTriple == Cardinality({key \in Triple : Given(data[key])}) = 2
BothHeights == Given(data.h1) /\ Given(data.h2)
DistancePaths == FormulaPaths \cup {"v_inf", "u_inf"}

\* C23: in a solve given two of f, u, v and both heights the missing one
\* is assigned by the distance branch (formula or focal-point guard), the
\* height-ratio step assigns nothing, and a value the distance branch
\* derived is the one the solve ends with; in any solve the height-ratio
\* step assigns u or v only if that distance is still absent after the
\* distance branch
C23_DistanceFirst ==
    AfterSolve
    => /\ (TwoOfTriple /\ BothHeights)
            => /\ path \in DistancePaths
               /\ AfterDistance.path = path
               /\ ~HeightRatioAssigned("u") /\ ~HeightRatioAssigned("v")
               /\ ~AfterDistance.exc
                    => /\ \A key \in Triple : Given(AfterDistance[key])
                       /\ SolveOK => \A key \in Triple :
                                        unrounded[key] = AfterDistance[key]
       /\ \A key \in {"u", "v"} :
             HeightRatioAssigned(key)
               => /\ IsNone(AfterDistance[key])
                  /\ ~Given(data[key])
                  /\ BothHeights
                  /\ AfterDistance.path = "none"

\* f, u and both heights supplied with a height ratio that contradicts the
\* mirror formula: v is the formula's value
C23_Witness ==
    /\ FirstSolve /\ SolveOK /\ optic_type = "mirror"
    /\ TwoOfTriple /\ BothHeights
    /\ path = "v_from_fu"
    /\ unrounded.v = MirrorV(unrounded.focal_length, unrounded.u)
    /\ unrounded.v # Mul(Neg(Div(data.h2, data.h1)), data.u)

\* the calculator of the last solver call after each step of the pass:
\* 0 the values taken from data, 1 the sign normalization (mirrors), 2 the
\* distance branch, 3 the magnification step, 4 the height-ratio step, 5 the
\* default height
Stage(i) ==
    CASE i = 0 -> Extract(Self, data)
      [] i = 1 -> IF optic_type = "mirror"
                  THEN MirrorSign(Extract(Self, data), shape)
                  ELSE Extract(Self, data)
      [] i = 2 -> AfterDistance
      [] i = 3 -> AfterMagnification
      [] i = 4 -> AfterHeightRatio
      [] OTHER -> IF optic_type = "mirror"
                  THEN MirrorDefaultHeight(AfterHeightRatio)
                  ELSE LensDefaultHeight(AfterHeightRatio)

\* a value known before the step is the same after it
Preserved(a, b) == \A key \in Keys : Given(a[key]) => b[key] = a[key]

\* the values the calculator ends the pass with are those of the last step
EndsWith(s) == \A key \in Keys : Values[key] = s[key]

\* C24 as stated: no step of the pass replaces a value that is known, and
\* the pass ends with the values so obtained
C24_AssignedOnceAny ==
    AfterSolve
    => /\ \A i \in 1..5 : Preserved(Stage(i - 1), Stage(i))
       /\ EndsWith(Stage(5))

\* C24, amended: the derivation steps (distance branch, magnification,
\* height ratio, default height) never replace a value that is known, so
\* each value is derived at most once; the sign normalization of a mirror
\* keeps the magnitude of a supplied f and leaves the other values alone;
\* the pass ends with the values so obtained, each rounded to 3 decimals
\* when the pass completes
C24_AssignedOnce ==
    AfterSolve
    => /\ \A i \in 2..5 : Preserved(Stage(i - 1), Stage(i))
       /\ \A key \in Keys \ {"focal_length"} : Stage(1)[key] = data[key]
       /\ Abs(Stage(1).focal_length) = Abs(data.focal_length)
       /\ unrounded = FiveOf(Stage(5))
       /\ IF SolveOK
          THEN EndsWith(RoundValues(Stage(5)))
          ELSE EndsWith(Stage(5))

\* a pass in which v is derived and then rounded, and f was normalized
C24_Witness ==
    /\ FirstSolve /\ SolveOK /\ optic_type = "mirror"
    /\ path = "v_from_fu"
    /\ data.focal_length # unrounded.focal_length
    /\ IsFin(v) /\ v # unrounded.v
    /\ ~Given(data.h1) /\ Given(h1) /\ Given(h2)

\* C25: after a successful solve a resolved finite object distance is
\* strictly negative
C25_ObjectDistanceNegative ==
    (SolveOK /\ IsFin(u)) => Lt(u, Zero)

\* C26: after a successful solve a resolved focal length is not zero
C26_FocalNonZero ==
    (SolveOK /\ Given(focal_length)) => ~EqF(focal_length, Zero)

\* C27: after a successful mirror solve a resolved f is negative for a
\* concave mirror and positive for a convex one
C27_MirrorSign ==
    (SolveOK /\ optic_type = "mirror" /\ Given(focal_length))
    => /\ shape = "concave" => Lt(focal_length, Zero)
       /\ shape = "convex" => Gt(focal_length, Zero)

\* the request supplied exactly f and u
OnlyFU ==
    /\ Given(data.focal_length) /\ Given(data.u)
    /\ ~Given(data.v) /\ ~Given(data.h1) /\ ~Given(data.h2)

\* C28: a convex mirror solved from a supplied f and u alone is classified
\* Virtual, Erect, Diminished
C28_ConvexMirrorImage ==
    (FirstSolve /\ SolveOK /\ optic_type = "mirror" /\ shape = "convex"
        /\ OnlyFU)
    => /\ image_characteristics # None
       /\ image_characteristics.nature = "Virtual"
       /\ image_characteristics.orientation = "Erect"
       /\ image_characteristics.size = "Diminished"

\* a height was derived by the solver
HeightDerived == ~Given(data.h1) \/ ~Given(data.h2)

\* C29: in a successful finite result with a derived height the image is
\* Real exactly when it is Inverted (and Virtual exactly when it is Erect)
C29_NatureOrientation ==
    (FiniteResult /\ HeightDerived /\ image_characteristics # None)
    => /\ image_characteristics.nature \in {"Real", "Virtual"}
       /\ image_characteristics.orientation \in {"Erect", "Inverted"}
       /\ (image_characteristics.nature = "Real")
             <=> (image_characteristics.orientation = "Inverted")

\* what the last solver call alone produces, on a calculator without
\* history
Fresh == [errors |-> <<>>, ic |-> None]
LastSolve ==
    IF optic_type = "mirror"
    THEN CalculateMirror(Fresh, data, shape)
    ELSE CalculateLens(Fresh, data)

\* C30: after any solver call on a calculator the classification and the
\* errors are those of that call: a classification is present only if that
\* call produced it, and the errors hold only its diagnostics
C30_NoSurvivors ==
    AfterSolve
    => /\ image_characteristics = LastSolve.ic
       /\ errors = LastSolve.errors

=============================================================================
